---- MODULE Spec2Model ----
(***************************************************************************)
(* jsonsrt: a tolerant JSON-ish reformatter.                               *)
(*                                                                         *)
(*   parse.rs   parse : text -> Ok(Node) | Err        (nom combinators)    *)
(*   format.rs  Node::to_string / Node::format                             *)
(*   sort.rs    Node::sort_by_name / Node::sort_by_value                   *)
(*   main.rs    main: read_input, parse, sorts, to_string, write_output    *)
(*                                                                         *)
(* A text is a sequence of one-character strings.  A Node is a record      *)
(*   [kind |-> "Value",  x  |-> text]                                      *)
(*   [kind |-> "Array",  xs |-> sequence of Node]                          *)
(*   [kind |-> "Object", xs |-> sequence of <<key text, Node>>]            *)
(***************************************************************************)
EXTENDS Integers, Sequences, FiniteSets, TLC

VARIABLES
    input,      \* the text handed to parse (main: the String read_input returned)
    typed,      \* number of characters appended to the seed text (input generation)
    result,     \* what parse(input) returned; NotRun before the call
    output,     \* the String to_string built (main: with the pushed newline)
    reparsed,   \* what parse(output) returned (round trip); NotRun before
    orig,       \* the tree before any sort was applied
    prev,       \* the tree before the last sort was applied
    node,       \* the tree as it is now (mutated in place by the sorts)
    ops,        \* the sorts applied so far, in order
    args,       \* main: the parsed command line (Args)
    pc,         \* main: position in main()
    file,       \* main: content of the file named by args.file
    stdin,      \* main: text waiting on standard input
    stdout,     \* main: text written to standard output
    stderr,     \* main: lines written to the error stream
    status,     \* main: "running", then "exit 0" or "exit 1"
    lexer,      \* lexer.rs: the Lexer (data, buffer, offset)
    yielded     \* lexer.rs: what the calls of Lexer::next returned so far, in order

cli == << args, pc, file, stdin, stdout, stderr, status >>

lex == << lexer, yielded >>

vars == << input, typed, result, output, reparsed, orig, prev, node, ops, cli,
           lex >>

NotRun == [ok |-> FALSE, run |-> FALSE]

\* Lexer::new(data)
new(data) == [data |-> data, buffer |-> <<>>, offset |-> 0]

\* Option
None == [some |-> FALSE]
Some(x) == [some |-> TRUE, x |-> x]

(***************************************************************************)
(* Characters                                                              *)
(***************************************************************************)
QUOTE == "\""
BACKSLASH == "\\"
NL == "\n"
SP == " "

\* char::is_whitespace, restricted to the characters of the model
IsWhitespace(c) == c \in {SP, NL, "\t"}

\* ",:{}[]".contains(x)
IsDelimiter(c) == c \in {",", ":", "{", "}", "[", "]"}

\* byte value of each character of the model (str comparison is byte-wise)
ByteOf(c) ==
    CASE c = "\t" -> 9
      [] c = NL -> 10
      [] c = SP -> 32
      [] c = QUOTE -> 34
      [] c = "," -> 44
      [] c = "0" -> 48
      [] c = "1" -> 49
      [] c = "2" -> 50
      [] c = ":" -> 58
      [] c = "[" -> 91
      [] c = BACKSLASH -> 92
      [] c = "]" -> 93
      [] c = "a" -> 97
      [] c = "b" -> 98
      [] c = "n" -> 110
      [] c = "x" -> 120
      [] c = "{" -> 123
      [] c = "}" -> 125

Min(S) == CHOOSE m \in S : \A k \in S : m <= k

(***************************************************************************)
(* Node (node.rs)                                                          *)
(***************************************************************************)
Value(x) == [kind |-> "Value", x |-> x]
Array(xs) == [kind |-> "Array", xs |-> xs]
Object(xs) == [kind |-> "Object", xs |-> xs]

(***************************************************************************)
(* Parser (parse.rs).  A combinator applied to text s at position i (the   *)
(* remaining input is s[i..]) returns POk(rest, out) or PErr.  No parser   *)
(* of parse.rs produces nom's Failure or Incomplete.                       *)
(***************************************************************************)
POk(rest, out) == [ok |-> TRUE, rest |-> rest, out |-> out]
PErr == [ok |-> FALSE]

\* take_while(P): the position after the longest run of characters satisfying P
TakeWhile(P(_), s, i) ==
    LET stops == {j \in i..Len(s) : ~P(s[j])}
    IN  IF stops = {} THEN Len(s) + 1 ELSE Min(stops)

\* tag(c) for a one-character tag
Tag(c, s, i) == IF i <= Len(s) /\ s[i] = c THEN POk(i + 1, c) ELSE PErr

\* space(): take_while(is_whitespace), never fails
space(s, i) == TakeWhile(IsWhitespace, s, i)

\* the one element of a singleton set: Only({e(r) : r \in {x}}) is e with r
\* bound to the result x of one parser call
Only(S) == CHOOSE x \in S : TRUE

\* ws(tag(c)): delimited(space(), tag(c), space())
WsTag(c, s, i) ==
    Only({ IF t.ok THEN POk(space(s, t.rest), c) ELSE PErr
           : t \in {Tag(c, s, space(s, i))} })

NotBackslashOrQuote(c) == c \notin {BACKSLASH, QUOTE}
NotQuote(c) == c # QUOTE
IsStringish(c) == ~IsWhitespace(c) /\ ~IsDelimiter(c)

\* one step of alt((take_while1(not \ or "), tag("\\\""), take_while1(not ")))
\* at position j: the position after the match, or j when all three fail
StringAlt(s, j) ==
    IF TakeWhile(NotBackslashOrQuote, s, j) > j
    THEN TakeWhile(NotBackslashOrQuote, s, j)
    ELSE IF j + 1 <= Len(s) /\ s[j] = BACKSLASH /\ s[j + 1] = QUOTE THEN j + 2
    ELSE TakeWhile(NotQuote, s, j)

\* fold_many0(alt(...), || 0, |acc, xs| acc + xs.len()) from position j:
\* <<position where the alternatives stop matching, accumulated length>>
RECURSIVE StringFold(_, _, _)
StringFold(s, j, acc) ==
    Only({ IF k = j THEN <<j, acc>> ELSE StringFold(s, k, acc + (k - j))
           : k \in {StringAlt(s, j)} })

\* string() with the slice one byte short: &input0[0..count + 1]
stringShortSlice(s, i) ==
    IF ~Tag(QUOTE, s, i).ok THEN PErr
    ELSE Only({ IF ~Tag(QUOTE, s, f[1]).ok THEN PErr
                ELSE POk(f[1] + 1, SubSeq(s, i, i + f[2]))
                : f \in {StringFold(s, i + 1, 0)} })

\* string(): delimited(tag("\""), fold_many0(..), tag("\"")), then
\* &input0[0..count + 2]
string(s, i) ==
    IF ~Tag(QUOTE, s, i).ok THEN PErr
    ELSE Only({ IF ~Tag(QUOTE, s, f[1]).ok THEN PErr
                ELSE POk(f[1] + 1, SubSeq(s, i, i + f[2] + 1))
                : f \in {StringFold(s, i + 1, 0)} })

\* stringish(): take_while1(not whitespace, not a delimiter)
stringish(s, i) ==
    Only({ IF j > i THEN POk(j, SubSeq(s, i, j - 1)) ELSE PErr
           : j \in {TakeWhile(IsStringish, s, i)} })

\* value(): string() when the input starts with a quote, else stringish()
value(s, i) ==
    Only({ IF r.ok THEN POk(r.rest, Value(r.out)) ELSE PErr
           : r \in {IF Tag(QUOTE, s, i).ok THEN string(s, i) ELSE stringish(s, i)} })

RECURSIVE parseNode(_, _)
RECURSIVE array(_, _)
RECURSIVE object(_, _)
RECURSIVE ArrayRest(_, _, _)
RECURSIVE ObjectRest(_, _, _)
RECURSIVE member(_, _)
RECURSIVE ArrayList(_, _)
RECURSIVE ObjectList(_, _)

\* separated_pair(string(), ws(tag(":")), node())
member(s, i) ==
    Only({ IF ~k.ok THEN PErr
           ELSE Only({ IF ~c.ok THEN PErr
                       ELSE Only({ IF ~v.ok THEN PErr
                                   ELSE POk(v.rest, <<k.out, v.out>>)
                                   : v \in {parseNode(s, c.rest)} })
                       : c \in {WsTag(":", s, k.rest)} })
           : k \in {string(s, i)} })

\* separated_list0(ws(tag(",")), node()) after the first element: a separator
\* with no element after it is not consumed
ArrayRest(s, i, res) ==
    Only({ IF ~sep.ok THEN POk(i, res)
           ELSE Only({ IF ~e.ok THEN POk(i, res)
                       ELSE ArrayRest(s, e.rest, Append(res, e.out))
                       : e \in {parseNode(s, sep.rest)} })
           : sep \in {WsTag(",", s, i)} })

\* separated_list0(ws(tag(",")), node())
ArrayList(s, i) ==
    Only({ IF ~e.ok THEN POk(i, <<>>) ELSE ArrayRest(s, e.rest, <<e.out>>)
           : e \in {parseNode(s, i)} })

\* array(): delimited(ws(tag("[")), separated_list0(..), ws(tag("]")))
array(s, i) ==
    Only({ IF ~open.ok THEN PErr
           ELSE Only({ Only({ IF ~close.ok THEN PErr
                              ELSE POk(close.rest, Array(l.out))
                              : close \in {WsTag("]", s, l.rest)} })
                       : l \in {ArrayList(s, open.rest)} })
           : open \in {WsTag("[", s, i)} })

ObjectRest(s, i, res) ==
    Only({ IF ~sep.ok THEN POk(i, res)
           ELSE Only({ IF ~e.ok THEN POk(i, res)
                       ELSE ObjectRest(s, e.rest, Append(res, e.out))
                       : e \in {member(s, sep.rest)} })
           : sep \in {WsTag(",", s, i)} })

\* separated_list0(ws(tag(",")), separated_pair(..))
ObjectList(s, i) ==
    Only({ IF ~e.ok THEN POk(i, <<>>) ELSE ObjectRest(s, e.rest, <<e.out>>)
           : e \in {member(s, i)} })

\* object(): delimited(ws(tag("{")), separated_list0(..), ws(tag("}")))
object(s, i) ==
    Only({ IF ~open.ok THEN PErr
           ELSE Only({ Only({ IF ~close.ok THEN PErr
                              ELSE POk(close.rest, Object(l.out))
                              : close \in {WsTag("}", s, l.rest)} })
                       : l \in {ObjectList(s, open.rest)} })
           : open \in {WsTag("{", s, i)} })

\* alt((a, b, c)): the first of the three results that is Ok, else Err
Alt(a, b, c) == IF a.ok THEN a ELSE IF b.ok THEN b ELSE c

\* node(): ws(alt((object(), array(), value())))
parseNode(s, i) ==
    Only({ IF r.ok THEN POk(space(s, r.rest), r.out) ELSE PErr
           : r \in {Alt(object(s, space(s, i)), array(s, space(s, i)),
                        value(s, space(s, i)))} })

\* parse() that demands the whole input: Ok(node) only when nothing remains
parseAllConsuming(s) ==
    Only({ IF r.ok /\ r.rest = Len(s) + 1
           THEN [ok |-> TRUE, run |-> TRUE, node |-> r.out]
           ELSE [ok |-> FALSE, run |-> TRUE]
           : r \in {parseNode(s, 1)} })

\* parse(): Ok(node) whatever input remains, Err(message) on Error
parse(s) ==
    Only({ IF r.ok THEN [ok |-> TRUE, run |-> TRUE, node |-> r.out]
           ELSE [ok |-> FALSE, run |-> TRUE]
           : r \in {parseNode(s, 1)} })

(***************************************************************************)
(* Formatter (format.rs)                                                   *)
(***************************************************************************)
Indent == <<SP, SP>>

RECURSIVE print_indent(_)
print_indent(level) == IF level = 0 THEN <<>> ELSE Indent \o print_indent(level - 1)

RECURSIVE format(_, _, _)
RECURSIVE FormatItems(_, _, _)
RECURSIVE FormatMembers(_, _, _)

\* xs.iter().enumerate().for_each(..) of the Array arm, from element i on
FormatItems(xs, i, level) ==
    IF i > Len(xs) THEN <<>>
    ELSE format(xs[i], level + 1, TRUE)
         \o (IF i < Len(xs) THEN <<",", NL>> ELSE <<>>)
         \o FormatItems(xs, i + 1, level)

\* the Object arm with the member's value formatted at the object's own level
RECURSIVE FormatMembersSameLevel(_, _, _)
FormatMembersSameLevel(xs, i, level) ==
    IF i > Len(xs) THEN <<>>
    ELSE print_indent(level + 1) \o xs[i][1] \o <<":", SP>>
         \o format(xs[i][2], level, FALSE)
         \o (IF i < Len(xs) THEN <<",", NL>> ELSE <<>>)
         \o FormatMembersSameLevel(xs, i + 1, level)

\* xs.iter().enumerate().for_each(..) of the Object arm, from member i on
FormatMembers(xs, i, level) ==
    IF i > Len(xs) THEN <<>>
    ELSE print_indent(level + 1) \o xs[i][1] \o <<":", SP>>
         \o format(xs[i][2], level + 1, FALSE)
         \o (IF i < Len(xs) THEN <<",", NL>> ELSE <<>>)
         \o FormatMembers(xs, i + 1, level)

\* Node::format: the text it appends to buf
format(n, level, apply_initial_indent) ==
    (IF apply_initial_indent THEN print_indent(level) ELSE <<>>)
    \o (CASE n.kind = "Value" -> n.x
          [] n.kind = "Array" /\ n.xs = <<>> -> <<"[", "]">>
          [] n.kind = "Array" /\ n.xs # <<>> ->
                <<"[", NL>> \o FormatItems(n.xs, 1, level)
                \o <<NL>> \o print_indent(level) \o <<"]">>
          [] n.kind = "Object" /\ n.xs = <<>> -> <<"{", "}">>
          [] n.kind = "Object" /\ n.xs # <<>> ->
                <<"{", NL>> \o FormatMembers(n.xs, 1, level)
                \o <<NL>> \o print_indent(level) \o <<"}">>)

\* Node::to_string
to_string(n) == format(n, 0, FALSE)

(***************************************************************************)
(* SpecParse: parse and to_string applied to bounded input texts.  The     *)
(* text starts as one of the seeds and grows by typed characters.          *)
(***************************************************************************)
MaxTyped == 3

TypeChars == {QUOTE, BACKSLASH, "{", "}", "[", "]", ",", ":", SP, "n"}

\* prefixes of documents: the empty text, a string with a backslash sequence,
\* an object awaiting the ':' of a member, arrays and objects one or two levels
\* deep, an array of strings with an escaped quote followed by a comma
Seeds == { <<>>,
           <<QUOTE, BACKSLASH, "n">>,
           <<"{", QUOTE, "a", QUOTE>>,
           <<"[", "1", ",">>,
           <<"[", "{", QUOTE, "a", QUOTE, ":", "n">>,
           <<"{", QUOTE, "a", QUOTE, ":", "[", "n", ",", QUOTE, "b", BACKSLASH, QUOTE>>,
           <<"{", QUOTE, "a", BACKSLASH, QUOTE, QUOTE, ":", "1", ",", QUOTE, "b", QUOTE>>,
           <<"[", "[", "]", ",", SP, "{", "}", ",", QUOTE, BACKSLASH, BACKSLASH>>,
           <<"[", QUOTE, BACKSLASH, "n", BACKSLASH, QUOTE, ",", QUOTE, ",">> }

\* the library functions called directly: no process is running
NoArgs == [sort_by_name |-> FALSE, sort_by_value |-> None, file |-> FALSE]

InitParse ==
    /\ input \in Seeds
    /\ typed = 0
    /\ result = NotRun
    /\ output = <<>>
    /\ reparsed = NotRun
    /\ orig = Value(<<>>) /\ prev = Value(<<>>) /\ node = Value(<<>>)
    /\ ops = <<>>
    /\ args = NoArgs /\ pc = "lib"
    /\ file = <<>> /\ stdin = <<>> /\ stdout = <<>> /\ stderr = <<>>
    /\ status = "running"
    /\ lexer = new(<<>>) /\ yielded = <<>>

Type(c) ==
    /\ result = NotRun
    /\ typed < MaxTyped
    /\ input' = Append(input, c)
    /\ typed' = typed + 1
    /\ UNCHANGED << lex, result, output, reparsed, orig, prev, node, ops,
                    cli >>

\* let r = parse(&input)
Parse ==
    /\ result = NotRun
    /\ result' = parse(input)
    /\ UNCHANGED << lex, input, typed, output, reparsed, orig, prev, node, ops,
                    cli >>

\* let s = n.to_string(); parse(&s)
Reparse ==
    /\ result.ok
    /\ reparsed = NotRun
    /\ output' = to_string(result.node)
    /\ reparsed' = parse(output')
    /\ UNCHANGED << lex, input, typed, result, orig, prev, node, ops,
                    cli >>

NextParse ==
    \/ \E c \in TypeChars : Type(c)
    \/ Parse
    \/ Reparse

SpecParse == InitParse /\ [][NextParse]_vars

(***************************************************************************)
(* Sorter (sort.rs)                                                        *)
(***************************************************************************)
Max(S) == CHOOSE m \in S : \A k \in S : m >= k

\* str::cmp: byte-wise lexicographic order
RECURSIVE StrCmp(_, _)
StrCmp(a, b) ==
    IF a = <<>> /\ b = <<>> THEN "Equal"
    ELSE IF a = <<>> THEN "Less"
    ELSE IF b = <<>> THEN "Greater"
    ELSE IF ByteOf(Head(a)) < ByteOf(Head(b)) THEN "Less"
    ELSE IF ByteOf(Head(a)) > ByteOf(Head(b)) THEN "Greater"
    ELSE StrCmp(Tail(a), Tail(b))

\* unquote(s)
unquote(s) ==
    IF Len(s) > 1 /\ s[1] = QUOTE /\ s[Len(s)] = QUOTE
    THEN SubSeq(s, 2, Len(s) - 1)
    ELSE s

\* find_value looking only at the first member that has the quoted key
findValueFirstKey(n, key) ==
    IF n.kind = "Object"
    THEN LET qname == <<QUOTE>> \o key \o <<QUOTE>>
             hits == {i \in 1..Len(n.xs) : n.xs[i][1] = qname}
         IN  IF hits = {} THEN None
             ELSE IF n.xs[Min(hits)][2].kind = "Value"
                  THEN Some(n.xs[Min(hits)][2].x)
                  ELSE None
    ELSE None

\* find_value(node, key): the text of the first member that has the quoted key
\* and holds a Value
find_value(n, key) ==
    IF n.kind = "Object"
    THEN LET qname == <<QUOTE>> \o key \o <<QUOTE>>
             hits == {i \in 1..Len(n.xs) :
                         n.xs[i][2].kind = "Value" /\ n.xs[i][1] = qname}
         IN  IF hits = {} THEN None ELSE Some(n.xs[Min(hits)][2].x)
    ELSE None

\* slice::sort_by / sort_by_key: the stable sort of std, which for slices of
\* fewer than 20 elements is an insertion sort: each element in turn moves
\* left past the elements the comparison orders strictly after it
StableSort(xs, Compare(_, _)) ==
    LET Insert(sorted, e) ==
            LET stops == {j \in 1..Len(sorted) : Compare(e, sorted[j]) # "Less"}
                p == IF stops = {} THEN 0 ELSE Max(stops)
            IN  SubSeq(sorted, 1, p) \o <<e>> \o SubSeq(sorted, p + 1, Len(sorted))
        F[i \in 0..Len(xs)] == IF i = 0 THEN <<>> ELSE Insert(F[i - 1], xs[i])
    IN  F[Len(xs)]

\* the comparison of xs.sort_by_key(|x| x.0): the keys compared with their quotes
CompareNameQuoted(a, b) == StrCmp(a[1], b[1])

\* a comparison that never answers Equal: equal keys count as Less
CompareNameNoTies(a, b) ==
    IF StrCmp(unquote(a[1]), unquote(b[1])) = "Greater" THEN "Greater" ELSE "Less"

\* the comparison of xs.sort_by_key(|x| unquote(x.0))
CompareName(a, b) == StrCmp(unquote(a[1]), unquote(b[1]))

\* the closure comparing the value texts with their quotes
CompareValueQuoted(a, b, name) ==
    LET fa == find_value(a, name)
        fb == find_value(b, name)
    IN  IF fa.some /\ fb.some THEN StrCmp(fa.x, fb.x)
        ELSE "Equal"

\* the closure ordering an element without a sort value before one with it
CompareValueNoneFirst(a, b, name) ==
    LET fa == find_value(a, name)
        fb == find_value(b, name)
    IN  IF fa.some /\ fb.some THEN StrCmp(unquote(fa.x), unquote(fb.x))
        ELSE IF fb.some THEN "Less"
        ELSE "Equal"

\* the closure handed to xs.sort_by in sort_by_value
CompareValue(a, b, name) ==
    LET fa == find_value(a, name)
        fb == find_value(b, name)
    IN  IF fa.some /\ fb.some THEN StrCmp(unquote(fa.x), unquote(fb.x))
        ELSE "Equal"

RECURSIVE sortByNameUnquoting(_)
\* sort_by_name storing the unquoted key it sorts by in place of the key
sortByNameUnquoting(n) ==
    CASE n.kind = "Value" -> n
      [] n.kind = "Object" ->
            LET F[i \in 0..Len(n.xs)] ==
                    IF i = 0 THEN <<>>
                    ELSE Append(F[i - 1],
                                <<unquote(n.xs[i][1]), sortByNameUnquoting(n.xs[i][2])>>)
            IN  Object(StableSort(F[Len(n.xs)], CompareName))
      [] n.kind = "Array" ->
            LET F[i \in 0..Len(n.xs)] ==
                    IF i = 0 THEN <<>>
                    ELSE Append(F[i - 1], sortByNameUnquoting(n.xs[i]))
            IN  Array(F[Len(n.xs)])

RECURSIVE sort_by_name(_)
\* Node::sort_by_name
sort_by_name(n) ==
    CASE n.kind = "Value" -> n
      [] n.kind = "Object" ->
            LET F[i \in 0..Len(n.xs)] ==
                    IF i = 0 THEN <<>>
                    ELSE Append(F[i - 1], <<n.xs[i][1], sort_by_name(n.xs[i][2])>>)
            IN  Object(StableSort(F[Len(n.xs)], CompareName))
      [] n.kind = "Array" ->
            LET F[i \in 0..Len(n.xs)] ==
                    IF i = 0 THEN <<>> ELSE Append(F[i - 1], sort_by_name(n.xs[i]))
            IN  Array(F[Len(n.xs)])

RECURSIVE sort_by_value(_, _)
\* Node::sort_by_value
sort_by_value(n, name) ==
    CASE n.kind = "Value" -> n
      [] n.kind = "Object" ->
            LET F[i \in 0..Len(n.xs)] ==
                    IF i = 0 THEN <<>>
                    ELSE Append(F[i - 1],
                                <<n.xs[i][1], sort_by_value(n.xs[i][2], name)>>)
            IN  Object(F[Len(n.xs)])
      [] n.kind = "Array" ->
            LET F[i \in 0..Len(n.xs)] ==
                    IF i = 0 THEN <<>>
                    ELSE Append(F[i - 1], sort_by_value(n.xs[i], name))
                Cmp(a, b) == CompareValue(a, b, name)
            IN  Array(StableSort(F[Len(n.xs)], Cmp))

(***************************************************************************)
(* SpecSort: the sorts and to_string applied to bounded trees.  A tree     *)
(* starts as one of the seed trees and grows node by node: each new node   *)
(* becomes the last child of a node on the path of last children.          *)
(***************************************************************************)
MaxGrow == 2
MaxSorts == 2

ValueTexts == { <<"0">>, <<"1">>, <<QUOTE, "1", QUOTE>> }
KeyTexts == { <<QUOTE, "a", QUOTE>>, <<QUOTE, "a", SP, QUOTE>> }
SortKeys == { <<"a">> }

Leaves == {Value(v) : v \in ValueTexts} \cup {Array(<<>>), Object(<<>>)}

KA == <<QUOTE, "a", QUOTE>>
KASpace == <<QUOTE, "a", SP, QUOTE>>
V0 == Value(<<"0">>)
V1 == Value(<<"1">>)
VQ1 == Value(<<QUOTE, "1", QUOTE>>)
Obj1(k, v) == Object(<< <<k, v>> >>)

\* the trees growth starts from: the empty containers, a scalar, arrays of
\* objects to sort by value (with a tie, with an element that has no sort
\* value), arrays nested in a member and in an element, objects nested in an
\* element and in a member, and an object whose first member with the sort
\* key holds an array
SeedTrees == { Array(<<>>), Object(<<>>), V0,
               Array(<<Obj1(KA, V1)>>),
               Array(<<Obj1(KA, V1), Obj1(KA, VQ1)>>),
               Array(<<Obj1(KA, V1), V0>>),
               Array(<<Obj1(KA, V1), Obj1(KA, V0)>>),
               Obj1(KA, Array(<<Obj1(KA, V1)>>)),
               Array(<<Array(<<Obj1(KA, V1)>>)>>),
               Array(<<Obj1(KASpace, V1)>>),
               Obj1(KA, Obj1(KASpace, V1)),
               Array(<<Object(<< <<KA, Array(<<>>)>>, <<KA, V1>> >>)>>) }

\* the last child of a container
LastChild(n) == IF n.kind = "Array" THEN n.xs[Len(n.xs)] ELSE n.xs[Len(n.xs)][2]

\* the number of containers on the path of last children
RECURSIVE SpineLen(_)
SpineLen(n) ==
    IF n.kind = "Value" THEN 0
    ELSE IF n.xs = <<>> THEN 1
    ELSE 1 + SpineLen(LastChild(n))

RECURSIVE CanAttach(_, _)
CanAttach(n, d) ==
    /\ n.kind # "Value"
    /\ d = 0 \/ (n.xs # <<>> /\ CanAttach(LastChild(n), d - 1))

RECURSIVE Attach(_, _, _, _)
Attach(n, d, k, leaf) ==
    IF d = 0
    THEN IF n.kind = "Array" THEN Array(Append(n.xs, leaf))
         ELSE Object(Append(n.xs, <<k, leaf>>))
    ELSE IF n.kind = "Array"
         THEN Array([n.xs EXCEPT ![Len(n.xs)] = Attach(@, d - 1, k, leaf)])
         ELSE Object([n.xs EXCEPT ![Len(n.xs)] = <<@[1], Attach(@[2], d - 1, k, leaf)>>])

InitSort ==
    /\ node \in SeedTrees
    /\ orig = node /\ prev = node
    /\ ops = <<>>
    /\ typed = 0
    /\ input = <<>> /\ result = NotRun /\ output = <<>> /\ reparsed = NotRun
    /\ args = NoArgs /\ pc = "lib"
    /\ file = <<>> /\ stdin = <<>> /\ stdout = <<>> /\ stderr = <<>>
    /\ status = "running"
    /\ lexer = new(<<>>) /\ yielded = <<>>

Grow(d, k, leaf) ==
    /\ ops = <<>> /\ output = <<>>
    /\ typed < MaxGrow
    /\ CanAttach(node, d)
    /\ node' = Attach(node, d, k, leaf)
    /\ orig' = node' /\ prev' = node'
    /\ typed' = typed + 1
    /\ UNCHANGED << lex, input, result, output, reparsed, ops,
                    cli >>

\* node.sort_by_name()
SortByName ==
    /\ output = <<>>
    /\ Len(ops) < MaxSorts
    /\ prev' = node
    /\ node' = sort_by_name(node)
    /\ ops' = Append(ops, <<"name">>)
    /\ UNCHANGED << lex, input, typed, result, output, reparsed, orig,
                    cli >>

\* node.sort_by_value(name)
SortByValue(name) ==
    /\ output = <<>>
    /\ Len(ops) < MaxSorts
    /\ prev' = node
    /\ node' = sort_by_value(node, name)
    /\ ops' = Append(ops, <<"value", name>>)
    /\ UNCHANGED << lex, input, typed, result, output, reparsed, orig,
                    cli >>

\* node.to_string()
Stringify ==
    /\ output = <<>> /\ ops = <<>>
    /\ output' = to_string(node)
    /\ UNCHANGED << lex, input, typed, result, reparsed, orig, prev, node, ops,
                    cli >>

NextSort ==
    \/ \E d \in 0..(SpineLen(node) - 1), k \in KeyTexts, leaf \in Leaves :
          Grow(d, k, leaf)
    \/ SortByName
    \/ \E name \in SortKeys : SortByValue(name)
    \/ Stringify

SpecSort == InitSort /\ [][NextSort]_vars

(***************************************************************************)
(* Spec: one run of the command line program (main.rs).  I/O that fails    *)
(* (read_input or write_output returning Err) is not modelled.             *)
(***************************************************************************)
\* the documents a run is given
Docs == {
    <<"{", SP, "}">>,   \* the input of tests::can_use_stdin_stdout and can_use_file
    <<"{", QUOTE, "1", QUOTE, ":", "0", ",", QUOTE, "0", QUOTE, ":", "0", "}">>,   \* the input of tests::can_sort_by_name
    <<"[", "{", QUOTE, "a", QUOTE, ":", "1", "}", ",", "{", QUOTE, "a", QUOTE, ":", "0", "}", "]">>,   \* an array to sort by value, as in tests::can_sort_by_value
    <<"{", QUOTE, "b", QUOTE, ":", "[", "{", QUOTE, "a", QUOTE, ":", "1", "}", ",", "{", QUOTE, "a", QUOTE, ":", "0", "}", "]", ",", QUOTE, "a", QUOTE, ":", "0", "}">>,   \* a document both sorts reorder
    <<SP, "n", SP>>,   \* a bareword between whitespace
    <<QUOTE, "a", BACKSLASH, QUOTE, "b", QUOTE>>,   \* a string with an escaped quote
    <<"[", "1", ",", SP, "2", "]", "n">>,   \* a document followed by more text
    <<>>,   \* no input
    <<SP>>,   \* whitespace only
    <<"{", QUOTE, "a", QUOTE, ":", "}">>,   \* a member without a value
    <<"[", "1", ",", "]">>,   \* a trailing comma
    <<QUOTE, "a">>,   \* an unterminated string
    <<"{", "a", ":", "1", "}">>,   \* a bareword key
    <<"[", "1", SP, "2", "]">>,   \* a missing comma
    <<"[", "1">>    \* a missing closing bracket
    }

\* Args: --sort-by-name, --sort-by-value KEY, and whether a file is named
ArgsSet == [sort_by_name : BOOLEAN,
            sort_by_value : {None} \cup {Some(k) : k \in SortKeys},
            file : BOOLEAN]

\* what is on standard input when a file is named
OtherInput == <<"0">>

\* the line eprintln!("{}", e) writes for convert_error's message
ErrorMessage == "parse error"

Init ==
    /\ args \in ArgsSet
    /\ \E d \in Docs :
          /\ file = IF args.file THEN d ELSE <<>>
          /\ stdin = IF args.file THEN OtherInput ELSE d
    /\ pc = "read_input"
    /\ stdout = <<>> /\ stderr = <<>> /\ status = "running"
    /\ input = <<>> /\ typed = 0 /\ result = NotRun
    /\ output = <<>> /\ reparsed = NotRun
    /\ orig = Value(<<>>) /\ prev = Value(<<>>) /\ node = Value(<<>>)
    /\ ops = <<>>
    /\ lexer = new(<<>>) /\ yielded = <<>>

\* read_input(&args)
ReadInput ==
    /\ pc = "read_input"
    /\ input' = IF args.file THEN file ELSE stdin
    /\ stdin' = IF args.file THEN stdin ELSE <<>>
    /\ pc' = "parse"
    /\ UNCHANGED << lex, typed, result, output, reparsed, orig, prev, node, ops,
                    args, file, stdout, stderr, status >>

\* match parse(&input): Ok(mut node) binds the tree
ParseInput ==
    /\ pc = "parse"
    /\ result' = parse(input)
    /\ IF result'.ok
       THEN /\ node' = result'.node /\ orig' = result'.node /\ prev' = result'.node
            /\ pc' = "sort_by_name"
       ELSE /\ UNCHANGED << node, orig, prev >>
            /\ pc' = "err"
    /\ UNCHANGED << lex, input, typed, output, reparsed, ops,
                    args, file, stdin, stdout, stderr, status >>

\* the Err arm with exit(0) in place of exit(1)
ReportErrorExit0 ==
    /\ pc = "err"
    /\ stderr' = Append(stderr, ErrorMessage)
    /\ status' = "exit 0"
    /\ pc' = "exit"
    /\ UNCHANGED << lex, input, typed, result, output, reparsed, orig, prev, node, ops,
                    args, file, stdin, stdout >>

\* Err(e) => { eprintln!("{}", e); exit(1); }
ReportError ==
    /\ pc = "err"
    /\ stderr' = Append(stderr, ErrorMessage)
    /\ status' = "exit 1"
    /\ pc' = "exit"
    /\ UNCHANGED << lex, input, typed, result, output, reparsed, orig, prev, node, ops,
                    args, file, stdin, stdout >>

\* the step that goes on to sort_by_value without calling node.sort_by_name()
MainSortByNameSkipped ==
    /\ pc = "sort_by_name"
    /\ pc' = "sort_by_value"
    /\ UNCHANGED << lex, input, typed, result, output, reparsed, orig, prev, node, ops,
                    args, file, stdin, stdout, stderr, status >>

\* if args.sort_by_name { node.sort_by_name(); }
MainSortByName ==
    /\ pc = "sort_by_name"
    /\ IF args.sort_by_name
       THEN /\ prev' = node
            /\ node' = sort_by_name(node)
            /\ ops' = Append(ops, <<"name">>)
       ELSE UNCHANGED << prev, node, ops >>
    /\ pc' = "sort_by_value"
    /\ UNCHANGED << lex, input, typed, result, output, reparsed, orig,
                    args, file, stdin, stdout, stderr, status >>

\* if let Some(name) = args.sort_by_value.as_ref() { node.sort_by_value(name); }
MainSortByValue ==
    /\ pc = "sort_by_value"
    /\ IF args.sort_by_value.some
       THEN /\ prev' = node
            /\ node' = sort_by_value(node, args.sort_by_value.x)
            /\ ops' = Append(ops, <<"value", args.sort_by_value.x>>)
       ELSE UNCHANGED << prev, node, ops >>
    /\ pc' = "to_string"
    /\ UNCHANGED << lex, input, typed, result, output, reparsed, orig,
                    args, file, stdin, stdout, stderr, status >>

\* the output built without output.push('\n')
FormatOutputNoNewline ==
    /\ pc = "to_string"
    /\ output' = to_string(node)
    /\ pc' = "write_output"
    /\ UNCHANGED << lex, input, typed, result, reparsed, orig, prev, node, ops,
                    args, file, stdin, stdout, stderr, status >>

\* let mut output = node.to_string(); output.push('\n');
FormatOutput ==
    /\ pc = "to_string"
    /\ output' = to_string(node) \o <<NL>>
    /\ pc' = "write_output"
    /\ UNCHANGED << lex, input, typed, result, reparsed, orig, prev, node, ops,
                    args, file, stdin, stdout, stderr, status >>

\* write_output(&args, &output)?; Ok(())
WriteOutput ==
    /\ pc = "write_output"
    /\ file' = IF args.file THEN output ELSE file
    /\ stdout' = IF args.file THEN stdout ELSE stdout \o output
    /\ status' = "exit 0"
    /\ pc' = "exit"
    /\ UNCHANGED << lex, input, typed, result, output, reparsed, orig, prev, node, ops,
                    args, stdin, stderr >>

Next ==
    \/ ReadInput
    \/ ParseInput
    \/ ReportError
    \/ MainSortByName
    \/ MainSortByValue
    \/ FormatOutput
    \/ WriteOutput

Spec == Init /\ [][Next]_vars

(***************************************************************************)
(* Properties of parse and to_string                                       *)
(***************************************************************************)

\* the first position of s at or after i that holds no whitespace
FirstToken(s) == space(s, 1)

StartsWithQuote(s) == FirstToken(s) <= Len(s) /\ s[FirstToken(s)] = QUOTE

\* the quotes after the opening quote at i that no backslash immediately precedes
UnescapedQuotes(s, i) ==
    {j \in (i + 1)..Len(s) : s[j] = QUOTE /\ s[j - 1] # BACKSLASH}

HasBackslash(t) == \E i \in 1..Len(t) : t[i] = BACKSLASH

\* C1: round trip: whenever parse(input) returned Ok(n), parse(n.to_string())
\* returns Ok with a tree equal to n.
RoundTrip ==
    reparsed.run => (reparsed.ok /\ reparsed.node = result.node)

\* C1 witness: a round trip was run on an object whose member holds an array
\* with a string that has a backslash sequence in it
RoundTripWitness ==
    /\ reparsed.run
    /\ result.node.kind = "Object"
    /\ \E i \in 1..Len(result.node.xs) :
          /\ result.node.xs[i][2].kind = "Array"
          /\ \E j \in 1..Len(result.node.xs[i][2].xs) :
                /\ result.node.xs[i][2].xs[j].kind = "Value"
                /\ HasBackslash(result.node.xs[i][2].xs[j].x)

\* C2 (as claimed): when the input's first token starts with a quote at i, the
\* string ends at the first later quote that no backslash immediately precedes:
\* parse returns Ok exactly when such a quote j exists, and the Value text is
\* the source substring s[i..j].
StringEndsAtFirstUnescapedQuote ==
    (result.run /\ StartsWithQuote(input)) =>
        LET i == FirstToken(input)
            qs == UnescapedQuotes(input, i)
        IN  IF qs = {} THEN ~result.ok
            ELSE result.ok /\ result.node = Value(SubSeq(input, i, Min(qs)))

(***************************************************************************)
(* Malformed shapes, read off the tokens of the text: a quoted string runs *)
(* to the first later quote that no backslash immediately precedes, a      *)
(* bareword is a maximal run of characters that are neither whitespace nor *)
(* delimiters.  A token is "str", "ustr" (a string with no closing quote), *)
(* "word", or the delimiter itself.                                        *)
(***************************************************************************)
RECURSIVE Tokens(_, _)
Tokens(s, i) ==
    IF i > Len(s) THEN <<>>
    ELSE IF IsWhitespace(s[i]) THEN Tokens(s, i + 1)
    ELSE IF IsDelimiter(s[i]) THEN <<s[i]>> \o Tokens(s, i + 1)
    ELSE IF s[i] = QUOTE
         THEN IF UnescapedQuotes(s, i) = {}
              THEN <<"ustr">>
              ELSE <<"str">> \o Tokens(s, Min(UnescapedQuotes(s, i)) + 1)
    ELSE <<"word">> \o Tokens(s, Min({j \in (i + 1)..(Len(s) + 1) :
                                        j > Len(s) \/ ~IsStringish(s[j])}))

Opens == {"[", "{"}
Closes == {"]", "}"}

\* how many containers are open after the first j tokens
Depth(toks, j) ==
    Cardinality({k \in 1..j : toks[k] \in Opens})
        - Cardinality({k \in 1..j : toks[k] \in Closes})

\* token i belongs to the container that the text starts with
Inside(toks, i) ==
    /\ i \in 2..Len(toks)
    /\ toks[1] \in Opens
    /\ \A j \in 1..(i - 1) : Depth(toks, j) >= 1

EmptyOrWhitespace(toks) == toks = <<>>

UnterminatedString(toks) ==
    \E i \in 1..Len(toks) : toks[i] = "ustr" /\ (i = 1 \/ Inside(toks, i))

NoClosingDelimiter(toks) ==
    /\ toks # <<>>
    /\ toks[1] \in Opens
    /\ \A j \in 1..Len(toks) : Depth(toks, j) >= 1

MemberWithoutColon(toks) ==
    \E i \in 2..(Len(toks) - 1) :
        /\ Inside(toks, i + 1)
        /\ toks[i - 1] = "{" /\ toks[i] = "str" /\ toks[i + 1] # ":"

NoValueAfterColon(toks) ==
    \E i \in 2..(Len(toks) - 1) :
        /\ Inside(toks, i + 1)
        /\ toks[i - 1] = "str" /\ toks[i] = ":"
        /\ toks[i + 1] \in {"}", "]", ",", ":"}

MissingComma(toks) ==
    \E i \in 2..(Len(toks) - 1) :
        /\ Inside(toks, i + 1)
        /\ toks[i] \in {"str", "word", "]", "}"}
        /\ toks[i + 1] \in {"str", "ustr", "word", "[", "{"}

TrailingComma(toks) ==
    \E i \in 2..(Len(toks) - 1) :
        /\ Inside(toks, i + 1)
        /\ toks[i] = "," /\ toks[i + 1] \in Closes

BarewordKey(toks) ==
    \E i \in 2..Len(toks) :
        /\ Inside(toks, i)
        /\ toks[i] = "word"
        /\ \/ toks[i - 1] = "{"
           \/ /\ toks[i - 1] = ","
              /\ i < Len(toks) /\ toks[i + 1] = ":"

Malformed(s) ==
    LET toks == Tokens(s, 1) IN
    \/ EmptyOrWhitespace(toks)
    \/ UnterminatedString(toks)
    \/ NoClosingDelimiter(toks)
    \/ MemberWithoutColon(toks)
    \/ NoValueAfterColon(toks)
    \/ MissingComma(toks)
    \/ TrailingComma(toks)
    \/ BarewordKey(toks)

\* C8 (as claimed): parse returns an error, never a tree, for every input of a
\* malformed shape: empty or whitespace only, an unterminated string, a
\* container with no closing delimiter, a member with no ':' or with no value
\* after ':', a missing ',', a trailing ',', a bareword key.
MalformedIsRejected ==
    (result.run /\ Malformed(input)) => ~result.ok

\* The malformed shapes are rejected on every input that holds no backslash.
MalformedWithoutBackslashIsRejected ==
    (result.run /\ Malformed(input) /\ ~HasBackslash(input)) => ~result.ok

(***************************************************************************)
(* Whitespace between tokens                                               *)
(***************************************************************************)
\* the tokens of Tokens(s, i) with the positions of their first and last
\* characters
RECURSIVE Spans(_, _)
Spans(s, i) ==
    IF i > Len(s) THEN <<>>
    ELSE IF IsWhitespace(s[i]) THEN Spans(s, i + 1)
    ELSE IF IsDelimiter(s[i]) THEN <<[kind |-> s[i], first |-> i, last |-> i]>>
                                       \o Spans(s, i + 1)
    ELSE IF s[i] = QUOTE
         THEN IF UnescapedQuotes(s, i) = {}
              THEN <<[kind |-> "ustr", first |-> i, last |-> Len(s) + 1]>>
              ELSE <<[kind |-> "str", first |-> i,
                      last |-> Min(UnescapedQuotes(s, i))]>>
                       \o Spans(s, Min(UnescapedQuotes(s, i)) + 1)
    ELSE <<[kind |-> "word", first |-> i,
            last |-> Min({j \in (i + 1)..(Len(s) + 1) :
                            j > Len(s) \/ ~IsStringish(s[j])}) - 1]>>
             \o Spans(s, Min({j \in (i + 1)..(Len(s) + 1) :
                                j > Len(s) \/ ~IsStringish(s[j])}))

\* the positions p where a whitespace character put before s[p] (p = Len(s) + 1:
\* at the end) lies before the first token, after the last or between two
\* tokens: not inside a quoted string, not splitting a bareword
BetweenTokens(s) ==
    {p \in 1..(Len(s) + 1) :
        \A k \in 1..Len(Spans(s, 1)) :
            ~(Spans(s, 1)[k].first < p /\ p <= Spans(s, 1)[k].last)}

InsertAt(s, p, w) == SubSeq(s, 1, p - 1) \o <<w>> \o SubSeq(s, p, Len(s))

SameResult(a, b) == a.ok = b.ok /\ (a.ok => a.node = b.node)

HasWhitespace(t) == \E i \in 1..Len(t) : IsWhitespace(t[i])

IsQuoted(t) == Len(t) > 1 /\ t[1] = QUOTE /\ t[Len(t)] = QUOTE

\* every Value text and every key of the tree is a quoted string or holds no
\* whitespace
RECURSIVE NoOuterWhitespace(_)
NoOuterWhitespace(n) ==
    CASE n.kind = "Value" -> IsQuoted(n.x) \/ ~HasWhitespace(n.x)
      [] n.kind = "Array" -> \A i \in 1..Len(n.xs) : NoOuterWhitespace(n.xs[i])
      [] n.kind = "Object" ->
            \A i \in 1..Len(n.xs) :
                /\ IsQuoted(n.xs[i][1]) \/ ~HasWhitespace(n.xs[i][1])
                /\ NoOuterWhitespace(n.xs[i][2])

WsInserted(s) == {InsertAt(s, p, w) : p \in BetweenTokens(s), w \in {SP, NL}}

\* C12 (as claimed): a whitespace character added before the first token, after
\* the last or between two tokens of the input does not change the result of
\* parse, and no Value or key of the tree holds whitespace outside a quoted
\* string.
WhitespaceInsensitive ==
    result.run =>
        /\ \A t \in WsInserted(input) : SameResult(parse(t), result)
        /\ result.ok => NoOuterWhitespace(result.node)

\* On every input that holds no backslash, whitespace added between tokens
\* does not change the result of parse.
WhitespaceInsensitiveWithoutBackslash ==
    (result.run /\ ~HasBackslash(input)) =>
        /\ \A t \in WsInserted(input) : SameResult(parse(t), result)
        /\ result.ok => NoOuterWhitespace(result.node)

\* No Value or key of a parsed tree holds whitespace outside a quoted string.
ParsedTreeHasNoOuterWhitespace ==
    result.ok => NoOuterWhitespace(result.node)

(***************************************************************************)
(* Trailing data                                                           *)
(***************************************************************************)
Prefix(s, k) == SubSeq(s, 1, k)

\* the text p is one bareword up to its last character: a stringish character
\* put after it would become part of the node
EndsInBareword(p) ==
    /\ p # <<>>
    /\ parseNode(p, 1).ok
    /\ parseNode(p, 1).out.kind = "Value"
    /\ parseNode(p, 1).out.x[1] # QUOTE
    /\ parseNode(p, 1).rest = Len(p) + 1
    /\ IsStringish(p[Len(p)])

\* the first k characters of s are a complete node (parse accepts them) that
\* the character after them does not continue
StartsWithNode(s, k) ==
    /\ parse(Prefix(s, k)).ok
    /\ ~(k < Len(s) /\ EndsInBareword(Prefix(s, k)) /\ IsStringish(s[k + 1]))

\* C16: whenever the input starts with a complete node, parse returns Ok with
\* that node whatever text follows it, and the text formatted from the result
\* is that of the node alone.
TrailingDataIgnored ==
    result.run =>
        \A k \in 0..Len(input) :
            StartsWithNode(input, k) =>
                /\ result.ok
                /\ result.node = parse(Prefix(input, k)).node
                /\ reparsed.run => output = to_string(parse(Prefix(input, k)).node)

\* C16 witness: parse returned an array or an object for an input in which
\* text that is not whitespace follows the node, and the result was formatted
TrailingDataIgnoredWitness ==
    /\ result.ok /\ reparsed.run
    /\ result.node.kind # "Value"
    /\ parseNode(input, 1).rest <= Len(input)
    /\ StartsWithNode(input, parseNode(input, 1).rest - 1)
    /\ ~IsWhitespace(input[parseNode(input, 1).rest])

(***************************************************************************)
(* The reference rendering of a tree                                       *)
(***************************************************************************)
Indents(k) == [i \in 1..(2 * k) |-> SP]

\* the texts of a sequence joined by "," newline
RECURSIVE JoinLines(_)
JoinLines(ts) ==
    IF ts = <<>> THEN <<>>
    ELSE IF Len(ts) = 1 THEN ts[1]
    ELSE ts[1] \o <<",", NL>> \o JoinLines(Tail(ts))

RECURSIVE Render(_, _)
Render(n, L) ==
    IF n.kind = "Value" THEN n.x
    ELSE IF n.xs = <<>> THEN (IF n.kind = "Array" THEN <<"[", "]">> ELSE <<"{", "}">>)
    ELSE IF n.kind = "Array"
    THEN <<"[", NL>>
         \o JoinLines([i \in 1..Len(n.xs) |-> Indents(L + 1) \o Render(n.xs[i], L + 1)])
         \o <<NL>> \o Indents(L) \o <<"]">>
    ELSE <<"{", NL>>
         \o JoinLines([i \in 1..Len(n.xs) |->
                Indents(L + 1) \o n.xs[i][1] \o <<":", SP>> \o Render(n.xs[i][2], L + 1)])
         \o <<NL>> \o Indents(L) \o <<"}">>

\* C3: to_string(node) is the reference rendering at level 0, with no leading
\* indent and no trailing newline.
ToStringIsRender ==
    output # <<>> =>
        /\ output = Render(node, 0)
        /\ output[1] # SP
        /\ output[Len(output)] # NL

\* C3 witness: a rendered array holding a non-empty object one of whose members
\* holds a non-empty container (three levels of indentation)
ToStringIsRenderWitness ==
    /\ output # <<>>
    /\ node.kind = "Array"
    /\ \E i \in 1..Len(node.xs) :
          /\ node.xs[i].kind = "Object"
          /\ \E j \in 1..Len(node.xs[i].xs) :
                /\ node.xs[i].xs[j][2].kind # "Value"
                /\ node.xs[i].xs[j][2].xs # <<>>

(***************************************************************************)
(* Properties of the sorts                                                 *)
(***************************************************************************)
LastOp == ops[Len(ops)]
LastIsName == ops # <<>> /\ LastOp = <<"name">>
LastIsValue == ops # <<>> /\ LastOp[1] = "value"

\* a <= b in byte-wise lexicographic order: a is a prefix of b, or at the first
\* position where they differ a holds the smaller byte
LexLeq(a, b) ==
    \E k \in 0..Len(a) :
        /\ k <= Len(b)
        /\ SubSeq(a, 1, k) = SubSeq(b, 1, k)
        /\ \/ k = Len(a)
           \/ k < Len(b) /\ ByteOf(a[k + 1]) < ByteOf(b[k + 1])

\* the text without one leading and one trailing quote
Unquoted(t) ==
    IF Len(t) >= 2 /\ Head(t) = QUOTE /\ t[Len(t)] = QUOTE
    THEN [i \in 1..(Len(t) - 2) |-> t[i + 1]]
    ELSE t

Quoted(key) == <<QUOTE>> \o key \o <<QUOTE>>

\* the members of object e that have the quoted key and hold a scalar
ScalarMembers(e, key) ==
    {i \in 1..Len(e.xs) : e.xs[i][1] = Quoted(key) /\ e.xs[i][2].kind = "Value"}

HasSortValue(e, key) == e.kind = "Object" /\ ScalarMembers(e, key) # {}

SortValue(e, key) == e.xs[Min(ScalarMembers(e, key))][2].x

\* every Object of the tree has its members in non-decreasing order of their
\* unquoted keys
RECURSIVE ObjectsOrdered(_)
ObjectsOrdered(n) ==
    CASE n.kind = "Value" -> TRUE
      [] n.kind = "Array" -> \A i \in 1..Len(n.xs) : ObjectsOrdered(n.xs[i])
      [] n.kind = "Object" ->
            /\ \A i \in 1..(Len(n.xs) - 1) :
                  LexLeq(Unquoted(n.xs[i][1]), Unquoted(n.xs[i + 1][1]))
            /\ \A i \in 1..Len(n.xs) : ObjectsOrdered(n.xs[i][2])

\* every Array of the tree whose elements all have a sort value has them in
\* non-decreasing order of the unquoted sort values
RECURSIVE ArraysOrdered(_, _)
ArraysOrdered(n, key) ==
    CASE n.kind = "Value" -> TRUE
      [] n.kind = "Object" -> \A i \in 1..Len(n.xs) : ArraysOrdered(n.xs[i][2], key)
      [] n.kind = "Array" ->
            /\ (\A i \in 1..Len(n.xs) : HasSortValue(n.xs[i], key)) =>
                  \A i \in 1..(Len(n.xs) - 1) :
                      LexLeq(Unquoted(SortValue(n.xs[i], key)),
                             Unquoted(SortValue(n.xs[i + 1], key)))
            /\ \A i \in 1..Len(n.xs) : ArraysOrdered(n.xs[i], key)

\* C4: after sort_by_name every Object at every depth has its members in
\* non-decreasing byte-wise order of their unquoted keys.
SortByNameOrders == LastIsName => ObjectsOrdered(node)

\* C4 witness: sort_by_name reordered the members of an object that is an
\* element of an array, putting key "a" before key "a "
SortByNameOrdersWitness ==
    /\ LastIsName
    /\ node.kind = "Array"
    /\ \E i \in 1..Len(node.xs) :
          /\ node.xs[i].kind = "Object"
          /\ node.xs[i] # prev.xs[i]
          /\ node.xs[i].xs[1][1] = KA
          /\ node.xs[i].xs[2][1] = KASpace

\* C5: after sort_by_value(key) every Array at every depth whose elements are
\* all objects with a scalar member of that key has its elements in
\* non-decreasing byte-wise order of the unquoted text of that member.
SortByValueOrders == LastIsValue => ArraysOrdered(node, LastOp[2])

\* C5 witness: sort_by_value reordered an array of keyed objects that is held
\* by an object member
SortByValueOrdersWitness ==
    /\ LastIsValue
    /\ node.kind = "Object"
    /\ \E i \in 1..Len(node.xs) :
          /\ node.xs[i][2].kind = "Array"
          /\ node.xs[i][2] # prev.xs[i][2]
          /\ \A j \in 1..Len(node.xs[i][2].xs) :
                HasSortValue(node.xs[i][2].xs[j], LastOp[2])

\* the one-to-one maps of 1..n onto itself
Perms(n) == {f \in [1..n -> 1..n] : \A i, j \in 1..n : i # j => f[i] # f[j]}

\* two members are tied when their unquoted keys are equal
TiedNames(a, b) == Unquoted(a[1]) = Unquoted(b[1])

\* two elements are tied when a sort value is missing or the unquoted sort
\* values are equal
TiedValues(a, b, key) ==
    \/ ~HasSortValue(a, key)
    \/ ~HasSortValue(b, key)
    \/ Unquoted(SortValue(a, key)) = Unquoted(SortValue(b, key))

\* after is before with every Object's members rearranged so that tied
\* members keep their relative order (f maps a position after the sort to the
\* position before it)
RECURSIVE StableByName(_, _)
StableByName(before, after) ==
    /\ after.kind = before.kind
    /\ CASE before.kind = "Value" -> after = before
         [] before.kind = "Array" ->
               /\ Len(after.xs) = Len(before.xs)
               /\ \A i \in 1..Len(before.xs) : StableByName(before.xs[i], after.xs[i])
         [] before.kind = "Object" ->
               /\ Len(after.xs) = Len(before.xs)
               /\ \E f \in Perms(Len(before.xs)) :
                     /\ \A i \in 1..Len(after.xs) :
                           /\ after.xs[i][1] = before.xs[f[i]][1]
                           /\ StableByName(before.xs[f[i]][2], after.xs[i][2])
                     /\ \A i, j \in 1..Len(after.xs) :
                           (i < j /\ TiedNames(before.xs[f[i]], before.xs[f[j]]))
                               => f[i] < f[j]

\* after is before with every Array's elements rearranged so that tied
\* elements keep their relative order
RECURSIVE StableByValue(_, _, _)
StableByValue(before, after, key) ==
    /\ after.kind = before.kind
    /\ CASE before.kind = "Value" -> after = before
         [] before.kind = "Object" ->
               /\ Len(after.xs) = Len(before.xs)
               /\ \A i \in 1..Len(before.xs) :
                     /\ after.xs[i][1] = before.xs[i][1]
                     /\ StableByValue(before.xs[i][2], after.xs[i][2], key)
         [] before.kind = "Array" ->
               /\ Len(after.xs) = Len(before.xs)
               /\ \E f \in Perms(Len(before.xs)) :
                     /\ \A i \in 1..Len(after.xs) :
                           StableByValue(before.xs[f[i]], after.xs[i], key)
                     /\ \A i, j \in 1..Len(after.xs) :
                           (i < j /\ TiedValues(before.xs[f[i]], before.xs[f[j]], key))
                               => f[i] < f[j]

ParseFailed == result.run /\ ~result.ok
ParseSucceeded == result.run /\ result.ok

\* C9: when parse fails the run prints the error to the error stream and exits
\* with status 1; no sort is applied and nothing is written: the file keeps
\* the content that was read, standard output stays empty.
ParseErrorExits1 ==
    ParseFailed =>
        /\ pc \in {"err", "exit"}
        /\ ops = <<>>
        /\ output = <<>>
        /\ stdout = <<>>
        /\ args.file => file = input
        /\ pc = "exit" => (status = "exit 1" /\ stderr = <<ErrorMessage>>)
        /\ pc = "err" => (status = "running" /\ stderr = <<>>)

\* C9 witness: a run on a file, with both sorts requested, has exited after a
\* parse error
ParseErrorExits1Witness ==
    /\ ParseFailed /\ pc = "exit"
    /\ args.file /\ args.sort_by_name /\ args.sort_by_value.some
    /\ input # <<>>

\* C10: when parse succeeds the run writes the formatted tree followed by
\* exactly one newline: into the file when one is named, with nothing on
\* standard output, else to standard output.
SuccessWritesFormatted ==
    (ParseSucceeded /\ pc = "exit") =>
        LET text == Render(node, 0) IN
        /\ status = "exit 0" /\ stderr = <<>>
        /\ text[Len(text)] # NL
        /\ args.file => (file = text \o <<NL>> /\ stdout = <<>>)
        /\ ~args.file => (stdout = text \o <<NL>> /\ file = <<>>)

\* C10 witness: a run on a file has exited after replacing the file's content
\* with a text of several lines
SuccessWritesFormattedWitness ==
    /\ ParseSucceeded /\ pc = "exit"
    /\ args.file /\ file # input
    /\ \E i \in 1..(Len(file) - 1) : file[i] = NL

\* the sorts a run applies, in the order main calls them
NameOps == IF args.sort_by_name THEN << <<"name">> >> ELSE <<>>
ValueOps ==
    IF args.sort_by_value.some THEN << <<"value", args.sort_by_value.x>> >> ELSE <<>>

\* the parsed tree after the requested name sort, and after both requested sorts
AfterName == IF args.sort_by_name THEN sort_by_name(result.node) ELSE result.node
AfterValue ==
    IF args.sort_by_value.some
    THEN sort_by_value(AfterName, args.sort_by_value.x)
    ELSE AfterName

\* C11: the steps of a run happen in the order parse, sort_by_name if
\* requested, sort_by_value if requested, format, write: at each step the tree
\* is the parsed tree with exactly the earlier steps applied (name sort before
\* value sort), nothing is formatted before the sorts are done and nothing is
\* written before the text is formatted; with no sort requested the text
\* formatted is that of the parsed tree.
StepsInOrder ==
    /\ pc \in {"read_input", "parse"} =>
          (result = NotRun /\ ops = <<>> /\ output = <<>> /\ stdout = <<>>)
    /\ pc = "sort_by_name" =>
          (ParseSucceeded /\ ops = <<>> /\ node = result.node
           /\ output = <<>> /\ stdout = <<>>)
    /\ pc = "sort_by_value" =>
          (ParseSucceeded /\ ops = NameOps /\ node = AfterName
           /\ output = <<>> /\ stdout = <<>>)
    /\ pc = "to_string" =>
          (ParseSucceeded /\ ops = NameOps \o ValueOps /\ node = AfterValue
           /\ output = <<>> /\ stdout = <<>>)
    /\ pc = "write_output" =>
          (ParseSucceeded /\ ops = NameOps \o ValueOps /\ node = AfterValue
           /\ output = to_string(AfterValue) \o <<NL>>
           /\ stdout = <<>> /\ (args.file => file = input))
    /\ (pc = "exit" /\ ParseSucceeded) =>
          (ops = NameOps \o ValueOps /\ node = AfterValue
           /\ output = to_string(AfterValue) \o <<NL>>
           /\ (IF args.file THEN file ELSE stdout) = output)
    /\ (ParseSucceeded /\ ~args.sort_by_name /\ ~args.sort_by_value.some
        /\ pc \in {"write_output", "exit"}) =>
          output = to_string(result.node) \o <<NL>>

\* C11 witness: a run with both sorts requested has exited, each sort having
\* changed the tree it was given
StepsInOrderWitness ==
    /\ pc = "exit" /\ ParseSucceeded
    /\ args.sort_by_name /\ args.sort_by_value.some
    /\ AfterName # result.node
    /\ AfterValue # AfterName

(***************************************************************************)
(* Frame of the sorts                                                      *)
(***************************************************************************)
\* a is b with the members of objects reordered and nothing else changed:
\* Values and arrays' element order as in b, each object a permutation of its
\* members with the same key texts
RECURSIVE NameFrame(_, _)
NameFrame(b, a) ==
    CASE b.kind = "Value" -> a = b
      [] b.kind = "Array" ->
            /\ a.kind = "Array" /\ Len(a.xs) = Len(b.xs)
            /\ \A i \in 1..Len(b.xs) : NameFrame(b.xs[i], a.xs[i])
      [] b.kind = "Object" ->
            /\ a.kind = "Object" /\ Len(a.xs) = Len(b.xs)
            /\ \E f \in Perms(Len(b.xs)) :
                  \A i \in 1..Len(b.xs) :
                      /\ a.xs[i][1] = b.xs[f[i]][1]
                      /\ NameFrame(b.xs[f[i]][2], a.xs[i][2])

\* a is b with the elements of arrays reordered and nothing else changed:
\* Values, keys and objects' member order as in b, each array a permutation of
\* its elements
RECURSIVE ValueFrame(_, _)
ValueFrame(b, a) ==
    CASE b.kind = "Value" -> a = b
      [] b.kind = "Object" ->
            /\ a.kind = "Object" /\ Len(a.xs) = Len(b.xs)
            /\ \A i \in 1..Len(b.xs) :
                  /\ a.xs[i][1] = b.xs[i][1]
                  /\ ValueFrame(b.xs[i][2], a.xs[i][2])
      [] b.kind = "Array" ->
            /\ a.kind = "Array" /\ Len(a.xs) = Len(b.xs)
            /\ \E f \in Perms(Len(b.xs)) :
                  \A i \in 1..Len(b.xs) : ValueFrame(b.xs[f[i]], a.xs[i])

\* C13: frame of the sorts: sort_by_name only permutes the members of objects
\* (array element order, Value texts, key texts and kinds unchanged) and
\* sort_by_value only permutes the elements of arrays (object member order,
\* Value texts, key texts and kinds unchanged); a tree that is a single Value
\* is unchanged by both.
SortsKeepFrame ==
    /\ LastIsName => NameFrame(prev, node)
    /\ LastIsValue => ValueFrame(prev, node)
    /\ (ops # <<>> /\ orig.kind = "Value") => node = orig

\* C13 witness: a value sort has just reordered an array inside an object, or a
\* name sort the members of an object inside an array
SortsKeepFrameWitness ==
    /\ ops # <<>> /\ node # prev
    /\ \/ /\ LastIsValue /\ prev.kind = "Object"
       \/ /\ LastIsName /\ prev.kind = "Array"

(***************************************************************************)
(* Sort-key lookup                                                         *)
(***************************************************************************)
\* the elements of the arrays of a tree, at every depth
RECURSIVE Elements(_)
Elements(n) ==
    CASE n.kind = "Value" -> {}
      [] n.kind = "Array" ->
            {n.xs[i] : i \in 1..Len(n.xs)}
                \cup UNION {Elements(n.xs[i]) : i \in 1..Len(n.xs)}
      [] n.kind = "Object" -> UNION {Elements(n.xs[i][2]) : i \in 1..Len(n.xs)}

\* the members of object e that have the quoted key, whatever they hold
KeyMembers(e, key) == {i \in 1..Len(e.xs) : e.xs[i][1] = Quoted(key)}

\* the lookup as claimed: the first member with the key decides
FirstKeyLookup(e, key) ==
    IF e.kind # "Object" \/ KeyMembers(e, key) = {} THEN None
    ELSE IF e.xs[Min(KeyMembers(e, key))][2].kind = "Value"
         THEN Some(e.xs[Min(KeyMembers(e, key))][2].x)
         ELSE None

\* the lookup as amended: the first member with the key that holds a Value
FirstScalarLookup(e, key) ==
    IF HasSortValue(e, key) THEN Some(SortValue(e, key)) ELSE None

\* C14 (as claimed): the sort value sort_by_value uses for an array element is
\* the text of the first member whose key is the quoted key; the element has
\* none when it is not an Object, when no member has the key, or when that
\* first member holds an Array or an Object.
FirstKeyMemberDecides ==
    LastIsValue =>
        \A e \in Elements(prev) \cup Elements(node) :
            find_value(e, LastOp[2]) = FirstKeyLookup(e, LastOp[2])

\* C14 (amended): the sort value sort_by_value uses for an array element is the
\* text of the first member, in member order, that has the quoted key and
\* holds a Value: members with the key that hold an Array or an Object are
\* skipped; the element has none when it is not an Object or when no member
\* with the key holds a Value.
FirstScalarMemberDecides ==
    LastIsValue =>
        \A e \in Elements(prev) \cup Elements(node) :
            find_value(e, LastOp[2]) = FirstScalarLookup(e, LastOp[2])

\* C14 witness: sort_by_value moved an element behind one whose first member
\* with the key holds an Array and whose second member with the key holds a
\* Value
FirstScalarMemberDecidesWitness ==
    /\ LastIsValue /\ node # prev
    /\ prev.kind = "Array" /\ Len(prev.xs) > 1
    /\ prev.xs[1].kind = "Object"
    /\ KeyMembers(prev.xs[1], LastOp[2]) # {}
    /\ ScalarMembers(prev.xs[1], LastOp[2]) # {}
    /\ Min(KeyMembers(prev.xs[1], LastOp[2])) < Min(ScalarMembers(prev.xs[1], LastOp[2]))
    /\ node.xs[1] # prev.xs[1]

(***************************************************************************)
(* Arrays that mix elements with and without a sort value                  *)
(***************************************************************************)
Mixed(xs, key) ==
    /\ \E i \in 1..Len(xs) : HasSortValue(xs[i], key)
    /\ \E i \in 1..Len(xs) : ~HasSortValue(xs[i], key)

\* in every mixed Array of the tree, the elements that have a sort value are in
\* non-decreasing order among themselves
RECURSIVE ValuedOrdered(_, _)
ValuedOrdered(n, key) ==
    CASE n.kind = "Value" -> TRUE
      [] n.kind = "Object" -> \A i \in 1..Len(n.xs) : ValuedOrdered(n.xs[i][2], key)
      [] n.kind = "Array" ->
            /\ Mixed(n.xs, key) =>
                  \A i, j \in 1..Len(n.xs) :
                      (i < j /\ HasSortValue(n.xs[i], key) /\ HasSortValue(n.xs[j], key))
                          => LexLeq(Unquoted(SortValue(n.xs[i], key)),
                                    Unquoted(SortValue(n.xs[j], key)))
            /\ \A i \in 1..Len(n.xs) : ValuedOrdered(n.xs[i], key)

\* in every mixed Array of the tree, two neighbours that both have a sort value
\* are in non-decreasing order: each run of elements with a sort value between
\* two elements without one is ordered
RECURSIVE RunsOrdered(_, _)
RunsOrdered(n, key) ==
    CASE n.kind = "Value" -> TRUE
      [] n.kind = "Object" -> \A i \in 1..Len(n.xs) : RunsOrdered(n.xs[i][2], key)
      [] n.kind = "Array" ->
            /\ Mixed(n.xs, key) =>
                  \A i \in 1..(Len(n.xs) - 1) :
                      (HasSortValue(n.xs[i], key) /\ HasSortValue(n.xs[i + 1], key))
                          => LexLeq(Unquoted(SortValue(n.xs[i], key)),
                                    Unquoted(SortValue(n.xs[i + 1], key)))
            /\ \A i \in 1..Len(n.xs) : RunsOrdered(n.xs[i], key)

\* the elements without a sort value are at the same positions in a as in b
RECURSIVE UnvaluedStay(_, _, _)
UnvaluedStay(b, a, key) ==
    CASE b.kind = "Value" -> a = b
      [] b.kind = "Object" ->
            /\ a.kind = "Object" /\ Len(a.xs) = Len(b.xs)
            /\ \A i \in 1..Len(b.xs) : UnvaluedStay(b.xs[i][2], a.xs[i][2], key)
      [] b.kind = "Array" ->
            /\ a.kind = "Array" /\ Len(a.xs) = Len(b.xs)
            /\ \A i \in 1..Len(b.xs) :
                  ~HasSortValue(b.xs[i], key) =>
                      /\ ~HasSortValue(a.xs[i], key)
                      /\ UnvaluedStay(b.xs[i], a.xs[i], key)

\* C15 (as claimed): after sort_by_value(key) the elements of a mixed array
\* that have a sort value are in non-decreasing order of their unquoted value
\* text among themselves, wherever the elements without a sort value are.
ValuedElementsOrdered == LastIsValue => ValuedOrdered(node, LastOp[2])

\* C15 (amended): after sort_by_value(key) on a mixed array (of at most 20
\* elements) the elements without a sort value are where they were, and the
\* elements with a sort value are in non-decreasing order of their unquoted
\* value text within each run of neighbours between two elements without one.
ValuedRunsOrdered ==
    LastIsValue =>
        /\ RunsOrdered(node, LastOp[2])
        /\ UnvaluedStay(prev, node, LastOp[2])

\* C15 witness: sort_by_value reordered a run of elements with a sort value in
\* an array that also holds an element without one
ValuedRunsOrderedWitness ==
    /\ LastIsValue /\ node # prev
    /\ prev.kind = "Array" /\ Mixed(prev.xs, LastOp[2])
    /\ \E i \in 1..(Len(prev.xs) - 1) :
          /\ HasSortValue(prev.xs[i], LastOp[2])
          /\ HasSortValue(prev.xs[i + 1], LastOp[2])
          /\ node.xs[i] # prev.xs[i]

(***************************************************************************)
(* The two sorts applied in both orders                                    *)
(***************************************************************************)
\* C17: the two sorts commute: the tree after sort_by_name then
\* sort_by_value(k) is the tree that sort_by_value(k) then sort_by_name gives,
\* and the other way round, also for objects with duplicate keys.
SortsCommute ==
    \A k \in SortKeys :
        /\ ops = << <<"name">>, <<"value", k>> >>
              => node = sort_by_name(sort_by_value(orig, k))
        /\ ops = << <<"value", k>>, <<"name">> >>
              => node = sort_by_value(sort_by_name(orig), k)

\* C17 witness: sort_by_name and then sort_by_value were applied to an array
\* with an element that has a duplicate key, and each of them changed the tree
SortsCommuteWitness ==
    /\ Len(ops) = 2 /\ ops[1] = <<"name">> /\ ops[2][1] = "value"
    /\ prev # orig /\ node # prev
    /\ orig.kind = "Array"
    /\ \E i \in 1..Len(orig.xs) :
          /\ orig.xs[i].kind = "Object"
          /\ Cardinality(KeyMembers(orig.xs[i], ops[2][2])) > 1

(***************************************************************************)
(* The lexer (lexer.rs)                                                    *)
(*                                                                         *)
(* The Lexer is the record [data, buffer, offset]: data is the bytes not   *)
(* yet read, buffer the bytes of the Value being read, offset the number   *)
(* of bytes handed out in tokens or skipped as whitespace.  The bytes come *)
(* from memory, so reading them never fails: the Err arms for a failing    *)
(* reader are never taken.  A call returns None, Some(Err(EOF)) or         *)
(* Some(Ok(Token)), together with the Lexer as the call left it.           *)
(***************************************************************************)
NoToken == [kind |-> "None"]
ErrEOF == [kind |-> "Err", error |-> "EOF"]
Token(v, o) == [kind |-> "Token", value |-> v, offset |-> o]

\* TokenValue::try_from(u8), for the six bytes it accepts
try_from(b) ==
    CASE b = "{" -> <<"BeginObject">>
      [] b = "}" -> <<"EndObject">>
      [] b = "[" -> <<"BeginArray">>
      [] b = "]" -> <<"EndArray">>
      [] b = ":" -> <<"NameSeparator">>
      [] b = "," -> <<"ValueSeparator">>

\* TokenValue::Value(buffer)
TokenValue(buffer) == <<"Value", buffer>>

\* skip_spaces(): None at the end of the data, Some(Ok(())) before a byte that
\* is not whitespace
RECURSIVE skip_spaces(_)
skip_spaces(l) ==
    IF l.data = <<>> THEN [some |-> FALSE, lexer |-> l]
    ELSE IF IsWhitespace(Head(l.data))
         THEN skip_spaces([l EXCEPT !.data = Tail(@), !.offset = @ + 1])
         ELSE [some |-> TRUE, lexer |-> l]

\* return Some(Ok(Token { value: Value(buffer.clone()), offset })) after
\* self.offset += self.buffer.len()
ReturnValue(l) ==
    [ret |-> Token(TokenValue(l.buffer), l.offset),
     lexer |-> [l EXCEPT !.offset = @ + Len(l.buffer)]]

\* read_string(): the loop, with the local escape
RECURSIVE read_string(_, _)
read_string(l, escape) ==
    IF l.data = <<>> THEN [ret |-> ErrEOF, lexer |-> l]
    ELSE IF Head(l.data) = BACKSLASH
         THEN read_string([l EXCEPT !.data = Tail(@),
                                    !.buffer = Append(@, BACKSLASH)],
                          ~escape)
    ELSE IF ~escape /\ Head(l.data) = QUOTE
         THEN ReturnValue([l EXCEPT !.data = Tail(@),
                                    !.buffer = Append(@, QUOTE)])
    ELSE read_string([l EXCEPT !.data = Tail(@),
                               !.buffer = Append(@, Head(l.data))],
                     escape)

\* read_value(): the loop
RECURSIVE read_value(_)
read_value(l) ==
    IF /\ l.data # <<>>
       /\ ~IsWhitespace(Head(l.data))
       /\ ~IsDelimiter(Head(l.data))
    THEN read_value([l EXCEPT !.data = Tail(@),
                              !.buffer = Append(@, Head(l.data))])
    ELSE ReturnValue(l)

\* next() once skip_spaces() returned Some(Ok(())): self.data.next() is b
NextByte(l, b) ==
    IF IsDelimiter(b)
    THEN [ret |-> Token(try_from(b), l.offset),
          lexer |-> [l EXCEPT !.data = Tail(@), !.offset = @ + 1]]
    ELSE IF b = QUOTE
         THEN read_string([l EXCEPT !.data = Tail(@), !.buffer = <<b>>], FALSE)
         ELSE read_value([l EXCEPT !.data = Tail(@), !.buffer = <<b>>])

\* Lexer::next()
next(l) ==
    Only({ IF s.some THEN NextByte(s.lexer, Head(s.lexer.data))
                     ELSE [ret |-> NoToken, lexer |-> s.lexer]
           : s \in {skip_spaces(l)} })

(***************************************************************************)
(* SpecLexer: a Lexer over every byte sequence of at most MaxBytes bytes,  *)
(* and next() called on it until it has returned None twice in a row.      *)
(***************************************************************************)
MaxBytes == 4

LexerBytes == {QUOTE, BACKSLASH, SP, "a", ",", "{"}

LexerInputs == UNION { [1..n -> LexerBytes] : n \in 0..MaxBytes }

InitLexer ==
    /\ input \in LexerInputs
    /\ lexer = new(input) /\ yielded = <<>>
    /\ typed = 0 /\ result = NotRun /\ output = <<>> /\ reparsed = NotRun
    /\ orig = Value(<<>>) /\ prev = Value(<<>>) /\ node = Value(<<>>)
    /\ ops = <<>>
    /\ args = NoArgs /\ pc = "lib"
    /\ file = <<>> /\ stdin = <<>> /\ stdout = <<>> /\ stderr = <<>>
    /\ status = "running"

EndReached ==
    /\ Len(yielded) >= 2
    /\ yielded[Len(yielded)] = NoToken
    /\ yielded[Len(yielded) - 1] = NoToken

\* lexer.next()
LexerNext ==
    /\ ~EndReached
    /\ lexer' = next(lexer).lexer
    /\ yielded' = Append(yielded, next(lexer).ret)
    /\ UNCHANGED << input, typed, result, output, reparsed, orig, prev, node,
                    ops, cli >>

NextLexer == LexerNext

SpecLexer == InitLexer /\ [][NextLexer]_vars

(***************************************************************************)
(* Properties of the lexer                                                 *)
(*                                                                         *)
(* The tokens of a text, read off the text itself: a delimiter byte is a   *)
(* token, a quote opens a string that ends at the first later quote with   *)
(* an even number of backslashes right before it (every backslash escapes  *)
(* the byte after it), any other byte that is not whitespace starts a      *)
(* Value that runs up to the next whitespace or delimiter byte.  A string  *)
(* that never ends is the end-of-input error, after which nothing is left. *)
(***************************************************************************)
\* the number of backslashes in a row that end right before position j of s
BackslashesBefore(s, j) ==
    (j - 1) - Max({0} \cup {k \in 1..(j - 1) : s[k] # BACKSLASH})

\* the positions where the string opened at position i of s can end
ClosingQuotes(s, i) ==
    {j \in (i + 1)..Len(s) : s[j] = QUOTE /\ BackslashesBefore(s, j) % 2 = 0}

\* the last position of the Value that starts at position i of s
ValueEnd(s, i) ==
    Min({j \in i..Len(s) :
            j = Len(s) \/ IsWhitespace(s[j + 1]) \/ IsDelimiter(s[j + 1])})

RECURSIVE Lexemes(_, _)
Lexemes(s, i) ==
    IF i > Len(s) THEN <<>>
    ELSE IF IsWhitespace(s[i]) THEN Lexemes(s, i + 1)
    ELSE IF IsDelimiter(s[i])
         THEN <<Token(try_from(s[i]), i - 1)>> \o Lexemes(s, i + 1)
    ELSE IF s[i] = QUOTE
         THEN IF ClosingQuotes(s, i) = {}
              THEN <<ErrEOF>>
              ELSE <<Token(TokenValue(SubSeq(s, i, Min(ClosingQuotes(s, i)))),
                           i - 1)>>
                   \o Lexemes(s, Min(ClosingQuotes(s, i)) + 1)
    ELSE <<Token(TokenValue(SubSeq(s, i, ValueEnd(s, i))), i - 1)>>
         \o Lexemes(s, ValueEnd(s, i) + 1)

\* what the calls returned before the first None
Yields == SelectSeq(yielded, LAMBDA y : y # NoToken)

NoneIsFinal ==
    \A i \in 1..Len(yielded) :
        yielded[i] = NoToken => \A j \in i..Len(yielded) : yielded[j] = NoToken

IsPrefix(a, b) == Len(a) <= Len(b) /\ a = SubSeq(b, 1, Len(a))

TokenLen(t) == IF t.value[1] = "Value" THEN Len(t.value[2]) ELSE 1

\* the bytes of the input a token stands for
TokenBytes(t) == SubSeq(input, t.offset + 1, t.offset + TokenLen(t))

\* C18: the calls of next() return the tokens of the input in input order and
\* then None: what they returned so far is a prefix of the tokens of the
\* input, all of them once None was returned, and None stays None.  Every
\* token's offset is the index of its first byte, offsets strictly increase,
\* the bytes of a Value token are the input bytes from its offset over its
\* length, and whitespace outside a quoted string is in no token.
LexerYieldsTokens ==
    /\ NoneIsFinal
    /\ IsPrefix(Yields, Lexemes(input, 1))
    /\ (yielded # <<>> /\ yielded[Len(yielded)] = NoToken)
          => Yields = Lexemes(input, 1)

\* the same on inputs without a backslash
LexerYieldsTokensWithoutBackslash ==
    HasBackslash(input) \/ LexerYieldsTokens

\* whatever the input, the tokens returned lie in the input where their
\* offsets say, one after the other without overlap, a delimiter token is the
\* delimiter byte at its offset, a Value token holds the input bytes from its
\* offset over its length, and the bytes before, between and (once None was
\* returned) after the tokens are whitespace
TokensLieInInput ==
    /\ \A i \in 1..Len(yielded) :
          yielded[i].kind = "Token" =>
              /\ yielded[i].offset + TokenLen(yielded[i]) <= Len(input)
              /\ yielded[i].value[1] = "Value"
                    => yielded[i].value[2] = TokenBytes(yielded[i])
              /\ yielded[i].value[1] # "Value"
                    => yielded[i].value = try_from(input[yielded[i].offset + 1])
              /\ \A j \in 1..(i - 1) :
                    yielded[j].kind = "Token" =>
                        yielded[j].offset + TokenLen(yielded[j])
                            <= yielded[i].offset
    /\ \A p \in 1..Len(input) :
          (/\ p <= lexer.offset
           /\ \A i \in 1..Len(yielded) :
                 yielded[i].kind = "Token" =>
                     ~(yielded[i].offset < p
                       /\ p <= yielded[i].offset + TokenLen(yielded[i])))
             => IsWhitespace(input[p])
    /\ (yielded # <<>> /\ yielded[Len(yielded)] = NoToken
        /\ \A i \in 1..Len(yielded) : yielded[i] # ErrEOF)
          => lexer.offset = Len(input)

\* the lexer returned a Value token, a delimiter token and None for an input
\* that holds whitespace and no backslash
TokensLieInInputWitness ==
    /\ ~HasBackslash(input)
    /\ \E p \in 1..Len(input) : IsWhitespace(input[p])
    /\ \E i \in 1..Len(yielded) :
          yielded[i].kind = "Token" /\ yielded[i].value[1] = "Value"
    /\ \E i \in 1..Len(yielded) :
          yielded[i].kind = "Token" /\ yielded[i].value[1] # "Value"
    /\ yielded[Len(yielded)] = NoToken

====
